---- MODULE Spec2Model ----
(***************************************************************************)
(* A model of nf_core/modules.py: the PipelineModules object (file tree,   *)
(* current hash, available module names), the GitHub tree and blob         *)
(* requests it makes, and the files and directories it creates under the   *)
(* pipeline directory.                                                      *)
(*                                                                         *)
(* Python strings are sequences of one-character strings, so startswith,   *)
(* endswith, "in", slicing, os.path.join and os.path.dirname work on the   *)
(* characters as they do in the code.                                       *)
(***************************************************************************)
EXTENDS Integers, Sequences, FiniteSets, TLC

VARIABLES
    modules_file_tree,           \* self.modules_file_tree
    modules_current_hash,        \* self.modules_current_hash
    modules_avail_module_names,  \* self.modules_avail_module_names
    fs_dirs,                     \* directories that exist on disk
    fs_files,                    \* files on disk: path -> bytes
    pc,                          \* "idle", or "install_loop" inside install's for loop
    op,                          \* the method called last
    module,                      \* install's / get_module_file_urls' argument
    files,                       \* install's dict items still to be downloaded
    result,                      \* how the last call ended
    status,                      \* HTTP status of the last tree request (0: none made)
    truncated,                   \* "truncated" of the last tree response body
    requests,                    \* url -> number of GETs made by the current call
    urls,                        \* the dict get_module_file_urls returned last
    stdout,                      \* the lines list_modules printed last
    dl_filename,                 \* the dl_filename of the last download_gh_file call
    blob_status,                 \* HTTP status of the last blob request (0: none made)
    installed,                   \* the modules an install ran to the end of its loop for
    calls_left                   \* calls the run may still make

vars == <<modules_file_tree, modules_current_hash, modules_avail_module_names,
          fs_dirs, fs_files, pc, op, module, files, result, status, truncated,
          requests, urls, stdout, dl_filename, blob_status, installed, calls_left>>

self_fields == <<modules_file_tree, modules_current_hash, modules_avail_module_names>>

fs == <<fs_dirs, fs_files>>

-----------------------------------------------------------------------------
(* Bounds of the model *)

\* longest tree listing a response carries
MaxTreeLen == 2

\* calls made on PipelineModules objects in one run
MaxCalls == 2

\* calls made in one run of the longer specification
MaxCallsLong == 3

-----------------------------------------------------------------------------
(* Python string and dict primitives *)

startswith(s, p) == Len(p) <= Len(s) /\ SubSeq(s, 1, Len(p)) = p

endswith(s, p) == Len(p) <= Len(s) /\ SubSeq(s, Len(s) - Len(p) + 1, Len(s)) = p

\* p in s
contains(s, p) ==
    \E i \in 1..(Len(s) - Len(p) + 1) :
        (p = <<>> \/ s[i] = p[1]) /\ SubSeq(s, i, i + Len(p) - 1) = p

\* s[start:-back]
slice(s, start, back) ==
    LET stop == IF Len(s) - back < 0 THEN 0 ELSE Len(s) - back
    IN  IF stop <= start THEN <<>> ELSE SubSeq(s, start + 1, stop)

\* x in list
in_list(x, list) == \E i \in 1..Len(list) : list[i] = x

\* d[k] = v
dict_set(d, k, v) == [x \in (DOMAIN d) \cup {k} |-> IF x = k THEN v ELSE d[x]]

\* d without key k
dict_del(d, k) == [x \in (DOMAIN d) \ {k} |-> d[x]]

-----------------------------------------------------------------------------
(* String literals of the code *)

\* "software/"
SOFTWARE == <<"s", "o", "f", "t", "w", "a", "r", "e", "/">>

\* "/main.nf"
MAIN_NF == <<"/", "m", "a", "i", "n", ".", "n", "f">>

\* "/test/"
TEST == <<"/", "t", "e", "s", "t", "/">>

\* "modules"
MODULES == <<"m", "o", "d", "u", "l", "e", "s">>

\* os.getcwd(), here "/w"
pipeline_dir == <<"/", "w">>

\* the tree request's api_url for the default ModulesRepo
tree_url == "https://api.github.com/repos/nf-core/modules/git/trees/master?recursive=1"

-----------------------------------------------------------------------------
(* os.path and the file system, as the code uses them *)

RECURSIVE rfind_from(_, _)
\* the last index <= i of a "/" in p, 0 when there is none
rfind_from(p, i) == IF i = 0 \/ p[i] = "/" THEN i ELSE rfind_from(p, i - 1)

\* p.rfind("/") + 1
rfind_sep(p) == rfind_from(p, Len(p))

RECURSIVE rstrip_sep(_)
\* p.rstrip("/")
rstrip_sep(p) ==
    IF p # <<>> /\ p[Len(p)] = "/" THEN rstrip_sep(SubSeq(p, 1, Len(p) - 1)) ELSE p

\* os.path.join(a, b)
path_join(a, b) ==
    IF startswith(b, <<"/">>) THEN b
    ELSE IF a = <<>> \/ endswith(a, <<"/">>) THEN a \o b
    ELSE a \o <<"/">> \o b

\* os.path.dirname(p)
dirname(p) ==
    LET head == SubSeq(p, 1, rfind_sep(p))
        stripped == rstrip_sep(head)
    IN  IF head # <<>> /\ stripped # <<>> THEN stripped ELSE head

\* os.path.exists(p): a path with a trailing slash names a directory only
path_exists(dirs, fls, p) ==
    IF Len(p) > 1 /\ endswith(p, <<"/">>)
    THEN rstrip_sep(p) \in dirs
    ELSE p \in dirs \/ p \in DOMAIN fls

RECURSIVE ancestors(_)
\* the directory d and every directory above it, up to the root
ancestors(d) ==
    LET parent == dirname(d)
    IN  IF d = <<>> \/ parent = d THEN {d} \ {<<>>} ELSE {d} \cup ancestors(parent)

\* os.makedirs(d): the directories that exist afterwards
makedirs(dirs, d) == dirs \cup ancestors(d)

\* os.makedirs(d) raises when a file is in the way of d or of a directory above it
makedirs_raises(fls, d) == \E a \in ancestors(d) : a \in DOMAIN fls

-----------------------------------------------------------------------------
(* base64.b64decode *)

B64Alphabet ==
    <<"A", "B", "C", "D", "E", "F", "G", "H", "I", "J", "K", "L", "M",
      "N", "O", "P", "Q", "R", "S", "T", "U", "V", "W", "X", "Y", "Z",
      "a", "b", "c", "d", "e", "f", "g", "h", "i", "j", "k", "l", "m",
      "n", "o", "p", "q", "r", "s", "t", "u", "v", "w", "x", "y", "z",
      "0", "1", "2", "3", "4", "5", "6", "7", "8", "9", "+", "/">>

\* the six bits a base64 character stands for ("=" pads with zero bits)
b64_value(c) ==
    IF c = "=" THEN 0
    ELSE (CHOOSE i \in 1..Len(B64Alphabet) : B64Alphabet[i] = c) - 1

\* the bytes of one group of four characters
b64_group(g) ==
    LET n == b64_value(g[1]) * 262144 + b64_value(g[2]) * 4096
             + b64_value(g[3]) * 64 + b64_value(g[4])
        pad == Cardinality({i \in 3..4 : g[i] = "="})
    IN  SubSeq(<<n \div 65536, (n \div 256) % 256, n % 256>>, 1, 3 - pad)

RECURSIVE b64decode(_)
\* base64.b64decode(content)
b64decode(content) ==
    IF Len(content) < 4 THEN <<>>
    ELSE b64_group(SubSeq(content, 1, 4)) \o b64decode(SubSeq(content, 5, Len(content)))

-----------------------------------------------------------------------------
(* What GitHub may answer *)

\* "software"
SOFTWARE_DIR == <<"s", "o", "f", "t", "w", "a", "r", "e">>

\* the repository's entries, in the order GitHub lists them: software/a (a
\* directory), software/a/main.nf, software/a/test/main.nf (the same content as
\* software/a/main.nf, so the same blob), software/ab/main.nf, software/main.nf
TreeEntries ==
    << [path |-> SOFTWARE \o <<"a">>, type |-> "tree", url |-> "trees/1"],
       [path |-> SOFTWARE \o <<"a">> \o MAIN_NF, type |-> "blob", url |-> "blobs/1"],
       [path |-> SOFTWARE \o <<"a", "/", "t", "e", "s", "t">> \o MAIN_NF,
        type |-> "blob", url |-> "blobs/1"],
       [path |-> SOFTWARE \o <<"a", "b">> \o MAIN_NF, type |-> "blob", url |-> "blobs/2"],
       [path |-> SOFTWARE_DIR \o MAIN_NF, type |-> "blob", url |-> "blobs/3"] >>

RECURSIVE listing(_)
\* the entries with index in I, in listing order
listing(I) ==
    IF I = {} THEN <<>>
    ELSE LET m == CHOOSE i \in I : \A j \in I : i <= j
         IN  <<TreeEntries[m]>> \o listing(I \ {m})

\* the listings a response may carry, each by the indices of its entries
Listings == {J \in SUBSET (1..Len(TreeEntries)) : Cardinality(J) <= MaxTreeLen}

RECURSIVE sha_of(_)
\* result["sha"]: git names a tree by its content, so a listing fixes it
sha_of(I) ==
    IF I = {} THEN 0
    ELSE LET m == CHOOSE i \in I : \A j \in I : i <= j
         IN  2 ^ m + sha_of(I \ {m})

\* modules_current_hash before any tree was fetched: None
None == -1

\* the tree request's responses: 200 with the listing of some commit of the
\* repository, 200 with a listing cut short (truncated), 404 and 500
TreeResponses ==
    {[status |-> 200, truncated |-> FALSE, sha |-> sha_of(I), tree |-> listing(I)] :
        I \in Listings}
    \cup {[status |-> 200, truncated |-> TRUE, sha |-> sha_of(I), tree |-> listing(I)] :
        I \in {1..MaxTreeLen}}
    \cup [status : {404, 500}, truncated : {FALSE}, sha : {0}, tree : {<<>>}]

\* result["content"] of the blob at url: git names a blob by its content, so the
\* url fixes it. "QQ==" and "QUI=" are base64 of the bytes 65 and 65, 66
content_of(url) ==
    IF url = "blobs/2" THEN <<"Q", "U", "I", "=">> ELSE <<"Q", "Q", "=", "=">>

\* a blob request's responses
BlobResponses(url) == [status : {200, 500}, content : {content_of(url)}]

\* every url a request may go to
Urls == {tree_url} \cup {TreeEntries[i].url : i \in 1..Len(TreeEntries)}

\* the module names a caller may ask for: "a", "ab"
ModuleArgs == {<<"a">>, <<"a", "b">>}

no_requests == [u \in Urls |-> 0]

\* requests.get(url), counted
get(reqs, url) == [reqs EXCEPT ![url] = @ + 1]

-----------------------------------------------------------------------------
(* PipelineModules *)

\* the test of line 126 on f["path"]
is_module_main(path) ==
    startswith(path, SOFTWARE) /\ endswith(path, MAIN_NF) /\ ~contains(path, TEST)

RECURSIVE append_module_names(_, _)
\* the for loop of get_modules_file_tree: names after appending those found in tree
append_module_names(tree, names) ==
    IF tree = <<>> THEN names
    ELSE append_module_names(
             Tail(tree),
             IF is_module_main(Head(tree).path)
             THEN Append(names, slice(Head(tree).path, 9, 8))
             ELSE names)

\* get_modules_file_tree with the truncated assert moved below the assignments of
\* lines 123 and 124: a variant FetchFailureLeavesFields tells from the code
get_modules_file_tree_late_assert(r) ==
    IF r.status = 404
    THEN [raised |-> "SystemExit", hash |-> modules_current_hash,
          tree |-> modules_file_tree, names |-> modules_avail_module_names]
    ELSE IF r.status # 200
    THEN [raised |-> "SystemError", hash |-> modules_current_hash,
          tree |-> modules_file_tree, names |-> modules_avail_module_names]
    ELSE [raised |-> IF r.truncated # FALSE THEN "AssertionError" ELSE "none",
          hash |-> r.sha,
          tree |-> r.tree,
          names |-> IF r.truncated # FALSE THEN modules_avail_module_names
                    ELSE append_module_names(r.tree, modules_avail_module_names)]

\* get_modules_file_tree, given the response r to its request: what it raises and
\* the three fields it leaves
get_modules_file_tree(r) ==
    LET kept(raised) == [raised |-> raised,
                         hash |-> modules_current_hash,
                         tree |-> modules_file_tree,
                         names |-> modules_avail_module_names]
    IN  IF r.status = 404 THEN kept("SystemExit")
        ELSE IF r.status # 200 THEN kept("SystemError")
        ELSE IF r.truncated # FALSE THEN kept("AssertionError")
        ELSE [raised |-> "none",
              hash |-> r.sha,
              tree |-> r.tree,
              names |-> append_module_names(r.tree, modules_avail_module_names)]

RECURSIVE module_file_urls_loop(_, _, _)
\* the for loop of get_module_file_urls over the file tree
module_file_urls_loop(tree, m, results) ==
    IF tree = <<>> THEN results
    ELSE module_file_urls_loop(
             Tail(tree), m,
             IF startswith(Head(tree).path, SOFTWARE \o m) /\ Head(tree).type = "blob"
             THEN dict_set(results, Head(tree).path, Head(tree).url)
             ELSE results)

RECURSIVE module_file_urls_any_type(_, _, _)
\* the loop without its f["type"] == "blob" test
module_file_urls_any_type(tree, m, results) ==
    IF tree = <<>> THEN results
    ELSE module_file_urls_any_type(
             Tail(tree), m,
             IF startswith(Head(tree).path, SOFTWARE \o m)
             THEN dict_set(results, Head(tree).path, Head(tree).url)
             ELSE results)

\* get_module_file_urls without the blob test: a variant ModuleFileUrlsExact tells
\* from the code
get_module_file_urls_any_type(tree, m) == module_file_urls_any_type(tree, m, <<>>)

\* get_module_file_urls(module) on the file tree `tree`
get_module_file_urls(tree, m) == module_file_urls_loop(tree, m, <<>>)

\* os.path.join(self.pipeline_dir, "modules", "software", module)
module_dir(m) == path_join(path_join(path_join(pipeline_dir, MODULES), SOFTWARE_DIR), m)

\* os.path.join(self.pipeline_dir, "modules", filename)
dl_path(filename) == path_join(path_join(pipeline_dir, MODULES), filename)

\* install without the os.path.exists check of line 70: a variant
\* ExistingDirectoryUntouched tells from the code
install_branch_unchecked(names, dirs, fls, m) ==
    IF ~in_list(m, names) THEN "not_found" ELSE "download"

\* install's two checks: which way it goes once the tree is fetched
install_branch(names, dirs, fls, m) ==
    IF ~in_list(m, names) THEN "not_found"
    ELSE IF path_exists(dirs, fls, module_dir(m)) THEN "exists"
    ELSE "download"

\* download_gh_file making its request before it makes the directory: a variant
\* FailedDownloadKeepsFiles tells from the code
download_gh_file_request_first(dirs, fls, filename, b) ==
    LET dl_directory == dirname(filename)
        missing == ~path_exists(dirs, fls, dl_directory)
        dirs2 == IF missing THEN makedirs(dirs, dl_directory) ELSE dirs
    IN  IF b.status # 200
        THEN [raised |-> "SystemError", dirs |-> dirs, fls |-> fls, requested |-> TRUE]
        ELSE [raised |-> "none", dirs |-> dirs2,
              fls |-> dict_set(fls, filename, b64decode(b.content)),
              requested |-> TRUE]

\* download_gh_file(dl_filename, api_url), given the response b to its request:
\* what it raises, the file system it leaves, and whether the request was made
download_gh_file(dirs, fls, filename, b) ==
    LET dl_directory == dirname(filename)
        missing == ~path_exists(dirs, fls, dl_directory)
        dirs2 == IF missing THEN makedirs(dirs, dl_directory) ELSE dirs
    IN  IF missing /\ makedirs_raises(fls, dl_directory)
        THEN [raised |-> "OSError", dirs |-> dirs, fls |-> fls, requested |-> FALSE]
        ELSE IF b.status # 200
        THEN [raised |-> "SystemError", dirs |-> dirs2, fls |-> fls, requested |-> TRUE]
        ELSE IF filename \in dirs2
        THEN [raised |-> "OSError", dirs |-> dirs2, fls |-> fls, requested |-> TRUE]
        ELSE [raised |-> "none", dirs |-> dirs2,
              fls |-> dict_set(fls, filename, b64decode(b.content)),
              requested |-> TRUE]

-----------------------------------------------------------------------------
(* The calls *)

\* the ways a call ends other than by returning
Raised == {"SystemExit", "SystemError", "AssertionError", "OSError"}

Start ==
    /\ modules_file_tree = <<>>
    /\ modules_current_hash = None
    /\ modules_avail_module_names = <<>>
    /\ fs_dirs = ancestors(pipeline_dir)
    /\ fs_files = <<>>
    /\ pc = "idle"
    /\ op = "__init__"
    /\ module = <<>>
    /\ files = <<>>
    /\ result = "None"
    /\ status = 0
    /\ truncated = FALSE
    /\ requests = no_requests
    /\ urls = <<>>
    /\ stdout = <<>>
    /\ dl_filename = <<>>
    /\ blob_status = 0
    /\ installed = {}

Init == Start /\ calls_left = MaxCalls

InitLong == Start /\ calls_left = MaxCallsLong

\* PipelineModules(modules_repo_obj): the next command's object, in the same directory
Construct ==
    /\ pc = "idle"
    /\ modules_file_tree' = <<>>
    /\ modules_current_hash' = None
    /\ modules_avail_module_names' = <<>>
    /\ op' = "__init__"
    /\ module' = <<>>
    /\ files' = <<>>
    /\ result' = "None"
    /\ status' = 0
    /\ truncated' = FALSE
    /\ requests' = no_requests
    /\ urls' = <<>>
    /\ stdout' = <<>>
    /\ dl_filename' = <<>>
    /\ blob_status' = 0
    /\ UNCHANGED <<fs_dirs, fs_files, pc, installed, calls_left>>

\* list_modules(), the tree request answered by r
ListModules(r) ==
    /\ pc = "idle"
    /\ calls_left > 0
    /\ \E t \in {get_modules_file_tree(r)} :
        /\ calls_left' = calls_left - 1
        /\ modules_current_hash' = t.hash
        /\ modules_file_tree' = t.tree
        /\ modules_avail_module_names' = t.names
        /\ op' = "list_modules"
        /\ module' = <<>>
        /\ files' = <<>>
        /\ result' = IF t.raised = "none" THEN "None" ELSE t.raised
        /\ status' = r.status
        /\ truncated' = r.truncated
        /\ requests' = get(no_requests, tree_url)
        /\ urls' = <<>>
        /\ stdout' = IF t.raised = "none" /\ Len(t.names) > 0 THEN t.names ELSE <<>>
        /\ dl_filename' = <<>>
        /\ blob_status' = 0
        /\ UNCHANGED <<fs_dirs, fs_files, pc, installed>>

\* install(m) up to its for loop, the tree request answered by r
Install(m, r) ==
    /\ pc = "idle"
    /\ calls_left > 0
    /\ \E t \in {get_modules_file_tree(r)} :
       \E branch \in {IF t.raised # "none" THEN "raised"
                      ELSE install_branch(t.names, fs_dirs, fs_files, m)} :
       \E todo \in {IF branch = "download" THEN get_module_file_urls(t.tree, m) ELSE <<>>} :
        /\ calls_left' = calls_left - 1
        /\ modules_current_hash' = t.hash
        /\ modules_file_tree' = t.tree
        /\ modules_avail_module_names' = t.names
        /\ op' = "install"
        /\ module' = m
        /\ files' = todo
        /\ urls' = todo
        /\ pc' = IF DOMAIN todo # {} THEN "install_loop" ELSE "idle"
        /\ result' = CASE branch = "raised" -> t.raised
                       [] branch \in {"not_found", "exists"} -> "False"
                       [] OTHER -> "None"
        /\ installed' = IF branch = "download" /\ DOMAIN todo = {}
                        THEN installed \cup {m} ELSE installed
        /\ status' = r.status
        /\ truncated' = r.truncated
        /\ requests' = get(no_requests, tree_url)
        /\ stdout' = <<>>
        /\ dl_filename' = <<>>
        /\ blob_status' = 0
        /\ UNCHANGED <<fs_dirs, fs_files>>

\* one round of install's for loop: download_gh_file for the item filename of the
\* dict, the blob request answered by b
InstallLoop(filename, b) ==
    /\ pc = "install_loop"
    /\ filename \in DOMAIN files
    /\ \E d \in {download_gh_file(fs_dirs, fs_files, dl_path(filename), b)} :
       \E rest \in {dict_del(files, filename)} :
        /\ dl_filename' = dl_path(filename)
        /\ blob_status' = IF d.requested THEN b.status ELSE 0
        /\ fs_dirs' = d.dirs
        /\ fs_files' = d.fls
        /\ requests' = IF d.requested THEN get(requests, files[filename]) ELSE requests
        /\ files' = IF d.raised = "none" THEN rest ELSE <<>>
        /\ pc' = IF d.raised = "none" /\ DOMAIN rest # {} THEN "install_loop" ELSE "idle"
        /\ result' = IF d.raised = "none" THEN "None" ELSE d.raised
        /\ installed' = IF d.raised = "none" /\ DOMAIN rest = {}
                        THEN installed \cup {module} ELSE installed
        /\ UNCHANGED <<self_fields, op, module, status, truncated, urls, stdout, calls_left>>

\* get_module_file_urls(m), called on the object as it stands
GetModuleFileUrls(m) ==
    /\ pc = "idle"
    /\ calls_left > 0
    /\ calls_left' = calls_left - 1
    /\ op' = "get_module_file_urls"
    /\ module' = m
    /\ urls' = get_module_file_urls(modules_file_tree, m)
    /\ files' = <<>>
    /\ result' = "None"
    /\ status' = 0
    /\ truncated' = FALSE
    /\ requests' = no_requests
    /\ stdout' = <<>>
    /\ dl_filename' = <<>>
    /\ blob_status' = 0
    /\ UNCHANGED <<self_fields, fs_dirs, fs_files, pc, installed>>

Next ==
    \/ Construct
    \/ \E r \in TreeResponses : ListModules(r)
    \/ \E m \in ModuleArgs, r \in TreeResponses : Install(m, r)
    \/ \E filename \in DOMAIN files :
           \E b \in BlobResponses(files[filename]) : InstallLoop(filename, b)
    \/ \E m \in ModuleArgs : GetModuleFileUrls(m)

Spec == Init /\ [][Next]_vars

\* the same calls, one more of them in a run
SpecLong == InitLong /\ [][Next]_vars

-----------------------------------------------------------------------------
(* Properties *)

\* the last call made a tree request and got a complete listing
FetchSucceeded ==
    op \in {"install", "list_modules"} /\ status = 200 /\ ~truncated

\* the names an object made for this call alone would hold for the tree
fresh_names(tree) == append_module_names(tree, <<>>)

\* the names the properties range over: the callers', the empty one, those held
NameSpace(names) == ModuleArgs \cup {<<>>} \cup {names[i] : i \in 1..Len(names)}

\* the paths the step creates or writes
touched ==
    (fs_dirs' \ fs_dirs)
    \cup {f \in DOMAIN fs_files' : f \notin DOMAIN fs_files \/ fs_files'[f] # fs_files[f]}

\* C1: after the first successful fetch on a new object, n is an available module
\* name exactly when the tree has an entry with path "software/" + n + "/main.nf"
\* that does not contain "/test/"; no other name is held.
FreshFetchNamesExact ==
    [][(/\ pc = "idle"
        /\ modules_current_hash = None
        /\ op' \in {"install", "list_modules"}
        /\ status' = 200 /\ ~truncated')
       => \A n \in NameSpace(modules_avail_module_names') :
            in_list(n, modules_avail_module_names')
            <=> \E i \in 1..Len(modules_file_tree') :
                    /\ modules_file_tree'[i].path = SOFTWARE \o n \o MAIN_NF
                    /\ ~contains(modules_file_tree'[i].path, TEST)]_vars

\* C2: install(m) with m not among the names of the tree this call fetched returns
\* False, creates and writes nothing, and makes no request but the tree request.
AbsentModuleRefused ==
    [][(/\ pc = "idle"
        /\ op' = "install"
        /\ status' = 200 /\ ~truncated'
        /\ ~in_list(module', fresh_names(modules_file_tree')))
       => /\ result' = "False"
          /\ pc' = "idle"
          /\ UNCHANGED fs
          /\ requests' = get(no_requests, tree_url)]_vars

\* C3: install(m) with m available and the module directory already there returns
\* False, makes no blob request and leaves the file system as it was.
ExistingDirectoryUntouched ==
    [][(/\ pc = "idle"
        /\ op' = "install"
        /\ status' = 200 /\ ~truncated'
        /\ in_list(module', modules_avail_module_names')
        /\ path_exists(fs_dirs, fs_files, module_dir(module')))
       => /\ result' = "False"
          /\ pc' = "idle"
          /\ UNCHANGED fs
          /\ requests' = get(no_requests, tree_url)]_vars

\* C3 happens: an install of an available module has just returned False
ExistingDirectoryRefused ==
    /\ op = "install" /\ pc = "idle" /\ result = "False"
    /\ status = 200 /\ ~truncated
    /\ in_list(module, modules_avail_module_names)
    /\ path_exists(fs_dirs, fs_files, module_dir(module))
    /\ DOMAIN fs_files # {}

\* C4: an install that ends neither by one of its two "return False" nor by an
\* exception (m available, no module directory, every blob request answered 200)
\* returns True, having requested each file's url exactly once and written the
\* decoded content of the response to modules/<path>.
InstallReturnsTrue ==
    (/\ op = "install" /\ pc = "idle"
     /\ in_list(module, fresh_names(modules_file_tree))
     /\ result \notin Raised \cup {"False"})
    => /\ result = "True"
       /\ \A path \in DOMAIN urls :
            /\ requests[urls[path]] = 1
            /\ dl_path(path) \in DOMAIN fs_files
            /\ fs_files[dl_path(path)] = b64decode(content_of(urls[path]))

\* C5: whatever a round of install(m)'s loop creates or writes lies inside the
\* directory of module m (or is that directory, or one above it).
InstallWritesInsideModule ==
    [][pc = "install_loop"
       => \A p \in touched :
            \/ p \in ancestors(module_dir(module))
            \/ startswith(p, module_dir(module) \o <<"/">>)]_vars

\* C6: after a successful fetch the three fields are what a new object would hold
\* after fetching the same response: nothing of earlier responses remains.
FetchOverwrites ==
    FetchSucceeded
    => /\ modules_avail_module_names = fresh_names(modules_file_tree)
       /\ \E r \in TreeResponses :
            r.tree = modules_file_tree /\ r.sha = modules_current_hash

ModuleFileUrlsExact ==
    [][(pc = "idle" /\ op' = "get_module_file_urls")
       => /\ DOMAIN urls'
             = {modules_file_tree[i].path :
                  i \in {j \in 1..Len(modules_file_tree) :
                           /\ startswith(modules_file_tree[j].path, SOFTWARE \o module')
                           /\ modules_file_tree[j].type = "blob"}}
          /\ \A path \in DOMAIN urls' :
               \E i \in 1..Len(modules_file_tree) :
                   /\ modules_file_tree[i].path = path
                   /\ modules_file_tree[i].url = urls'[path]
          /\ requests' = no_requests
          /\ UNCHANGED self_fields]_vars

\* C8 happens: the call returned a file under /test/ and left out a directory entry
ModuleFileUrlsSkippedTree ==
    /\ op = "get_module_file_urls"
    /\ \E path \in DOMAIN urls : contains(path, TEST)
    /\ \E i \in 1..Len(modules_file_tree) :
           /\ modules_file_tree[i].type = "tree"
           /\ startswith(modules_file_tree[i].path, SOFTWARE \o module)

\* C9: a blob request answered with a status other than 200 ends install in
\* SystemError at once: no file is written, nothing is left to download, the
\* directory made for the file is there; and no round of the loop removes a
\* directory or a file that was there before it.
FailedDownloadKeepsFiles ==
    [][pc = "install_loop"
       => /\ fs_dirs \subseteq fs_dirs'
          /\ DOMAIN fs_files \subseteq DOMAIN fs_files'
          /\ blob_status' \notin {0, 200}
             => /\ result' = "SystemError"
                /\ pc' = "idle"
                /\ files' = <<>>
                /\ fs_files' = fs_files
                /\ dirname(dl_filename') \in fs_dirs'
                /\ \E u \in Urls \ {tree_url} : requests' = get(requests, u)]_vars

\* C9 happens: a blob request failed after a file of the same install was written
FailedAfterFirstFile ==
    /\ op = "install" /\ pc = "idle" /\ result = "SystemError"
    /\ blob_status = 500
    /\ \E path \in DOMAIN urls : dl_path(path) \in DOMAIN fs_files
    /\ \E path \in DOMAIN urls :
           dl_path(path) \notin DOMAIN fs_files /\ dirname(dl_path(path)) \in fs_dirs

\* C10: once an install(m) has run to the end of its loop, every later install(m)
\* that finds m in the tree it fetches returns False, makes no blob request and
\* changes no file.
InstallNotRepeatable ==
    [][(/\ pc = "idle"
        /\ op' = "install"
        /\ module' \in installed
        /\ status' = 200 /\ ~truncated'
        /\ in_list(module', fresh_names(modules_file_tree')))
       => /\ result' = "False"
          /\ pc' = "idle"
          /\ UNCHANGED fs
          /\ requests' = get(no_requests, tree_url)]_vars

====
